---- MODULE Spec2Model ----
(***************************************************************************)
(* eventposter/event_obj.py: one Event view (an event of one hoster in one *)
(* guild), its four interaction callbacks, update_event and end_event, and *)
(* its functions from_json, to_json, should_remove, start_time, mention.   *)
(*                                                                         *)
(* The callbacks are coroutines of one asyncio loop: a callback runs       *)
(* without interruption from one await to the next, and between two awaits *)
(* any other callback may run.  Each action below is one such stretch of   *)
(* code; task[t].pc is the await at which interaction t is suspended.      *)
(***************************************************************************)
EXTENDS Integers, Sequences, FiniteSets, TLC

\* ---------------------------------------------------------------- bounds
NumUsers == 2        \* user ids 1..NumUsers; 1 is the hoster
MaxTasks == 2        \* interactions that may be in flight at once
MaxSlotsBound == 2   \* max_slots is None or 0..MaxSlotsBound
MaxTicks == 3        \* times are the multiples 0..MaxTicks of TimeUnit
TimeUnit == 1800     \* seconds in one step of the clock

\* ------------------------------------------------------- python values
\* A Python value is a record of its type and its content, so that the
\* code's truth tests, "is None" tests and isinstance tests can be modelled.
None == [type |-> "NoneType", v |-> 0]
PyInt(n) == [type |-> "int", v |-> n]
Datetime(n) == [type |-> "datetime", v |-> n]   \* aware datetime, n = unix seconds
PyBool(b) == [type |-> "bool", v |-> b]
PyStr(x) == [type |-> "str", v |-> x]
PyList(s) == [type |-> "list", v |-> s]
PyTuple(s) == [type |-> "tuple", v |-> s]

\* bool(x): None and the integer 0 are false, a datetime is always true.
Truthy(x) == x.type # "NoneType" /\ ~(x.type = "int" /\ x.v = 0)

\* x in s, for a list s
Contains(s, x) == \E i \in 1..Len(s) : s[i] = x

\* a removal that puts the last element of the list in the place of x
Remove_swap(s, x) ==
    LET i == CHOOSE k \in 1..Len(s) : s[k] = x /\ \A j \in 1..(k - 1) : s[j] # x
    IN  [j \in 1..(Len(s) - 1) |-> IF j = i THEN s[Len(s)] ELSE s[j]]

\* s.remove(x): the list without the first occurrence of x (x is in s)
Remove(s, x) ==
    LET i == CHOOSE k \in 1..Len(s) : s[k] = x /\ \A j \in 1..(k - 1) : s[j] # x
    IN  [j \in 1..(Len(s) - 1) |-> IF j < i THEN s[j] ELSE s[j + 1]]

\* the lists over S that hold no element twice
Lists(S) ==
    {s \in UNION {[1..n -> S] : n \in 0..Cardinality(S)} :
        \A i, j \in 1..Len(s) : s[i] = s[j] => i = j}

\* ------------------------------------------------------ the event's data
Users == {PyInt(n) : n \in 1..NumUsers}
Hoster == PyInt(1)
Guild == PyInt(1)
Channel == PyInt(1)
MessageId == PyInt(4)
\* Event.event, the description, is the sequence of its pieces of text: a
\* word, a number followed by a unit of time ("2 days"), or a piece that the
\* date parser reads as a point in time ("8pm")
Word(w) == [type |-> "word", text |-> w, v |-> 0]
Duration(n, unit) == [type |-> "duration", text |-> unit, v |-> n]
DateText(t) == [type |-> "date", text |-> "", v |-> t]
Description == <<Word("raid"), Word("night")>>
SelectOptions == "tank"          \* a non-empty select_options mapping
Tasks == 1..MaxTasks
Times == {k * TimeUnit : k \in 0..MaxTicks}

VARIABLES
    members,      \* Event.members
    maybe,        \* Event.maybe
    max_slots,    \* Event.max_slots
    start,        \* Event.start
    event,        \* Event.event
    message,      \* Event.message
    disabled,     \* Event.join_button.disabled
    events,       \* config.guild(guild).events(): str(hoster) -> record
    event_cache,  \* cog.event_cache[guild]: message id -> hoster of the Event
    lock,         \* holder of the lock of "async with ...events()", 0 = free
    resolvable,   \* whether guild, channel and message can be looked up
    task,         \* the interactions in flight
    data,         \* a persisted record handed to from_json
    now,          \* datetime.now(timezone.utc).timestamp()
    seconds,      \* the grace window handed to should_remove
    calls,        \* the membership of a user before each of his maybeJoin calls
    ret           \* what the function applied last returned or raised

eventVars == <<members, maybe, max_slots, start, event, message, disabled>>
storeVars == <<events, event_cache, lock>>
progVars == <<members, maybe, max_slots, start, event, message, disabled,
              events, event_cache, lock, resolvable, task>>
argVars == <<data, now, seconds, calls, ret>>
vars == <<members, maybe, max_slots, start, event, message, disabled,
          events, event_cache, lock, resolvable, task,
          data, now, seconds, calls, ret>>

\* a function's outcome: the value it returns or the exception it raises
Return(x) == [raised |-> "", value |-> x]
Raise(e) == [raised |-> e, value |-> None]
NoCall == [raised |-> "", value |-> [type |-> "nothing", v |-> 0]]

\* the Event the callbacks act on (self.view)
Self ==
    [hoster |-> Hoster, members |-> members, event |-> event,
     max_slots |-> max_slots, approver |-> None, message |-> message,
     channel |-> Channel, guild |-> Guild, maybe |-> maybe, start |-> start,
     select_options |-> SelectOptions]

\* ------------------------------------------------------- pure functions
\* check_join_enabled that disables the control and never enables it again
check_join_enabled_once(d, mx, ms) ==
    IF Truthy(mx) /\ Len(ms) >= mx.v THEN TRUE ELSE d

\* Event.check_join_enabled: the new value of join_button.disabled
check_join_enabled(d, mx, ms) ==
    LET d1 == IF Truthy(mx) /\ Len(ms) >= mx.v THEN TRUE ELSE d
    IN  IF Truthy(mx) /\ Len(ms) < mx.v THEN FALSE ELSE d1

\* the capacity test with ">" for ">="
AtCapacity_late(mx, ms) == Truthy(mx) /\ Len(ms) > mx.v

\* the capacity test left out
AtCapacity_never(mx, ms) == FALSE

\* the capacity test of JoinEventButton.callback and PlayerClassSelect.callback
AtCapacity(mx, ms) == Truthy(mx) /\ Len(ms) >= mx.v

\* from_json that keeps the second element of a legacy entry
from_json_member_extra(m) == IF m.type \in {"tuple", "list"} THEN m.v[2] ELSE m

\* one entry of the persisted members list, as from_json keeps it
from_json_member(m) == IF m.type \in {"tuple", "list"} THEN m.v[1] ELSE m

\* Event.from_json: the Event built from a persisted record
from_json(d) ==
    [hoster |-> d.hoster,
     members |-> [i \in 1..Len(d.members) |-> from_json_member(d.members[i])],
     event |-> d.event,
     max_slots |-> d.max_slots,
     approver |-> d.approver,
     message |-> d.message,
     channel |-> d.channel,
     guild |-> IF Truthy(d.guild) THEN d.guild ELSE Guild,
     maybe |-> d.maybe,
     start |-> IF Truthy(d.start) THEN Datetime(d.start.v) ELSE d.start,
     select_options |-> d.select_options]

\* int(self.start.timestamp()) if self.start is not None else None
to_json_start(st) ==
    IF st.type = "NoneType" THEN Return(None)
    ELSE IF st.type = "datetime" THEN Return(PyInt(st.v))
    ELSE Raise("AttributeError")

\* Event.to_json: the record persisted for an Event, or the exception raised
to_json(self) ==
    IF to_json_start(self.start).raised # "" THEN Raise(to_json_start(self.start).raised)
    ELSE Return([hoster |-> self.hoster, members |-> self.members,
                 event |-> self.event, max_slots |-> self.max_slots,
                 approver |-> self.approver, message |-> self.message,
                 channel |-> self.channel, guild |-> self.guild,
                 maybe |-> self.maybe,
                 start |-> to_json_start(self.start).value,
                 select_options |-> self.select_options])

\* discord.utils.snowflake_time: the creation time held in the high bits of an id
SnowflakeLow == 4
snowflake_time(id) == (id.v \div SnowflakeLow) * TimeUnit

\* Event.should_remove
should_remove(self, secs, t) ==
    IF self.message.type = "NoneType" THEN TRUE
    ELSE IF Truthy(self.start) THEN t > self.start.v + secs
    ELSE t > snowflake_time(self.message) + secs

\* the groups of TIME_RE
Units == {"weeks", "days", "hours", "minutes", "seconds"}

\* TIME_RE.finditer(self.event): the matches, in the order of the text.  A
\* match is a number followed by a unit; one group of it is set
IsMatch(w) == w.type = "duration"
TIME_RE_finditer(ev) == SelectSeq(ev, IsMatch)

\* time_data after the loop over the matches: "time_data[k] = int(v)" for
\* the group k of every match, a later match of a group replacing an earlier
time_data(ev) ==
    LET ms == TIME_RE_finditer(ev)
        last(k) == CHOOSE i \in 1..Len(ms) :
                       ms[i].text = k /\ \A j \in (i + 1)..Len(ms) : ms[j].text # k
    IN  [k \in {ms[i].text : i \in 1..Len(ms)} |-> ms[last(k)].v]

\* the largest number of days of a timedelta
TimedeltaMaxDays == 999999999

\* timedelta(**td), in seconds; OverflowError past the days a timedelta holds
\* (hours, minutes and seconds taken to stay below a day)
timedelta(td) ==
    LET get(k) == IF k \in DOMAIN td THEN td[k] ELSE 0
    IN  IF get("weeks") * 7 + get("days") > TimedeltaMaxDays
        THEN Raise("OverflowError")
        ELSE Return(PyInt(get("weeks") * 604800 + get("days") * 86400
                          + get("hours") * 3600 + get("minutes") * 60
                          + get("seconds")))

\* parser.parse(self.event, fuzzy_with_tokens=True, ...): the point in time
\* the text holds, or ParserError when it holds none
parser_parse(ev) ==
    IF \E i \in 1..Len(ev) : ev[i].type = "date"
    THEN Return(Datetime(ev[CHOOSE i \in 1..Len(ev) :
                                ev[i].type = "date"
                                /\ \A j \in 1..(i - 1) : ev[j].type # "date"].v))
    ELSE Raise("ParserError")

\* "tomorrow" in self.event.lower()
HasTomorrow(ev) == \E i \in 1..Len(ev) : ev[i] = Word("tomorrow")

\* what a call of start_time leaves: the value returned or the exception
\* raised, and self.start
Outcome(r, st) == [raised |-> r.raised, value |-> r.value, start |-> st]

\* Event.start_time with self.start None, at the time t
start_time_resolve(self, t) ==
    IF DOMAIN time_data(self.event) # {}
    THEN IF timedelta(time_data(self.event)).raised # ""
         THEN Outcome(Raise("OverflowError"), self.start)
         ELSE Outcome(Return(Datetime(t + timedelta(time_data(self.event)).value.v)),
                      Datetime(t + timedelta(time_data(self.event)).value.v))
    ELSE IF parser_parse(self.event).raised # ""
         THEN Outcome(Return(None), self.start)
         ELSE LET date == IF HasTomorrow(self.event)
                          THEN Datetime(parser_parse(self.event).value.v + 86400)
                          ELSE parser_parse(self.event).value
              IN  Outcome(Return(date), date)

\* start_time that looks the time up again on every call
start_time_uncached(self, t) == start_time_resolve(self, t)

\* Event.start_time at the time t
start_time(self, t) ==
    IF self.start.type = "NoneType"
    THEN start_time_resolve(self, t)
    ELSE Outcome(Return(self.start), self.start)

\* ------------------------------------------------- interactions in flight
Idle == [pc |-> "idle", response |-> "", error |-> ""]

\* interaction t goes on to the await named p
Goto(t, p) == task' = [task EXCEPT ![t].pc = p]

\* interaction.response.send_message(msg, ephemeral=True), then return
Reply(t, msg) == task' = [task EXCEPT ![t] = [pc |-> "send_message", response |-> msg, error |-> ""]]

\* an exception leaves the callback: it reaches the caller of the callback
Throw(t, e) == task' = [task EXCEPT ![t] = [pc |-> "raised", response |-> @.response, error |-> e]]

\* a mapping after "f[k] = x"
SetItem(f, k, x) == [j \in DOMAIN f \cup {k} |-> IF j = k THEN x ELSE f[j]]

\* a mapping after "del f[k]" (k is a key of f)
DelItem(f, k) == [j \in DOMAIN f \ {k} |-> f[j]]

\* ------------------------------------------------------ the four callbacks
\* a join that leaves the user in maybe
maybe_remove_kept(my, u) == my

\* "if interaction.user.id in self.view.maybe: self.view.maybe.remove(...)"
maybe_remove(my, u) == IF Contains(my, u) THEN Remove(my, u) ELSE my

\* JoinEventButton.callback, up to its first await
JoinEventButton_callback(t, u) ==
    /\ task[t].pc = "idle"
    /\ IF Contains(members, u)
       THEN /\ Reply(t, "You have already registered for this event.")
            /\ UNCHANGED <<members, maybe, disabled>>
       ELSE IF AtCapacity(max_slots, members)
       THEN /\ Reply(t, "This event is at the maximum number of members.")
            /\ UNCHANGED <<members, maybe, disabled>>
       ELSE /\ maybe' = maybe_remove(maybe, u)
            /\ members' = Append(members, u)
            /\ disabled' = check_join_enabled(disabled, max_slots, members')
            /\ Goto(t, "fetch_message")
    /\ UNCHANGED <<max_slots, start, event, message, events, event_cache, lock, resolvable>>
    /\ UNCHANGED argVars

\* a leave that takes the hoster for a user like any other
LeaveEventButton_callback_any(t, u) ==
    /\ task[t].pc = "idle"
    /\ IF ~Contains(members, u)
       THEN /\ Reply(t, "You are not registered for this event.")
            /\ UNCHANGED <<members, maybe, disabled>>
       ELSE /\ members' = Remove(members, u)
            /\ maybe' = maybe_remove(maybe, u)
            /\ disabled' = check_join_enabled(disabled, max_slots, members')
            /\ Goto(t, "fetch_message")
    /\ UNCHANGED <<max_slots, start, event, message, events, event_cache, lock, resolvable>>
    /\ UNCHANGED argVars

\* LeaveEventButton.callback, up to its first await
LeaveEventButton_callback(t, u) ==
    /\ task[t].pc = "idle"
    /\ IF u = Hoster
       THEN /\ task' = [task EXCEPT ![t] = [pc |-> "confirm", error |-> "",
                           response |-> "Are you sure you want to end your event?"]]
            /\ UNCHANGED <<members, maybe, disabled>>
       ELSE IF ~Contains(members, u)
       THEN /\ Reply(t, "You are not registered for this event.")
            /\ UNCHANGED <<members, maybe, disabled>>
       ELSE /\ members' = IF Contains(members, u) THEN Remove(members, u) ELSE members
            /\ maybe' = maybe_remove(maybe, u)
            /\ disabled' = check_join_enabled(disabled, max_slots, members')
            /\ Goto(t, "fetch_message")
    /\ UNCHANGED <<max_slots, start, event, message, events, event_cache, lock, resolvable>>
    /\ UNCHANGED argVars

\* PlayerClassSelect.callback, up to the await of player_class.set
PlayerClassSelect_callback(t, u) ==
    /\ task[t].pc = "idle"
    /\ IF AtCapacity(max_slots, members)
       THEN /\ Reply(t, "This event is at the maximum number of members.")
            /\ UNCHANGED <<members, maybe>>
       ELSE /\ maybe' = maybe_remove(maybe, u)
            /\ members' = IF ~Contains(members, u) THEN Append(members, u) ELSE members
            /\ Goto(t, "player_class_set")
    /\ UNCHANGED <<disabled, max_slots, start, event, message, events, event_cache,
                   lock, resolvable>>
    /\ UNCHANGED argVars

\* PlayerClassSelect.callback, from the await of player_class.set on
PlayerClassSelect_resume(t) ==
    /\ task[t].pc = "player_class_set"
    /\ \/ /\ disabled' = check_join_enabled(disabled, max_slots, members)
          /\ Goto(t, "fetch_message")
       \/ /\ Throw(t, "PersistenceFailure")
          /\ UNCHANGED disabled
    /\ UNCHANGED <<members, maybe, max_slots, start, event, message, events, event_cache,
                   lock, resolvable>>
    /\ UNCHANGED argVars

\* the members list after MaybeJoinEventButton.callback
maybe_members(ms, u) == IF Contains(ms, u) THEN Remove(ms, u) ELSE ms

\* a maybeJoin that only ever adds the user
maybe_toggle_add(my, u) == IF Contains(my, u) THEN my ELSE Append(my, u)

\* the maybe list after MaybeJoinEventButton.callback
maybe_toggle(my, u) == IF Contains(my, u) THEN Remove(my, u) ELSE Append(my, u)

\* MaybeJoinEventButton.callback, up to its first await
MaybeJoinEventButton_code(t, u) ==
    /\ task[t].pc = "idle"
    /\ IF u = Hoster
       THEN /\ Reply(t, "You are hosting this event, you cannot join the maybe queue!")
            /\ UNCHANGED <<members, maybe, disabled>>
       ELSE /\ members' = maybe_members(members, u)
            /\ disabled' = IF Contains(members, u)
                           THEN check_join_enabled(disabled, max_slots, members')
                           ELSE disabled
            /\ maybe' = maybe_toggle(maybe, u)
            /\ Goto(t, "fetch_message")
    /\ UNCHANGED <<max_slots, start, event, message, events, event_cache, lock, resolvable>>

MaybeJoinEventButton_callback(t, u) ==
    /\ MaybeJoinEventButton_code(t, u)
    /\ UNCHANGED argVars

\* ------------------------------------------------------------ update_event
\* Event.get_ctx as update_event calls it: the context, or None when the
\* guild, the channel or the message is not found
update_get_ctx(t) ==
    /\ task[t].pc = "fetch_message"
    /\ Goto(t, IF resolvable THEN "make_event_embed" ELSE "make_event_embed_none")
    /\ UNCHANGED <<eventVars, storeVars, resolvable>>
    /\ UNCHANGED argVars

\* Event.make_event_embed(ctx) with a context: the embed is made of the
\* Event's fields, and its call of start_time() sets start or raises
make_event_embed(t) ==
    /\ task[t].pc = "make_event_embed"
    /\ IF start_time(Self, now).raised # ""
       THEN Throw(t, start_time(Self, now).raised)
       ELSE Goto(t, "edit_fetch_message")
    /\ start' = start_time(Self, now).start
    /\ UNCHANGED <<members, maybe, max_slots, event, message, disabled>>
    /\ UNCHANGED <<storeVars, resolvable>>
    /\ UNCHANGED argVars

\* Event.make_event_embed(None): get_ctx once more, then ctx.guild; with a
\* context found now the embed is made, start_time() included, and
\* update_event goes on to self.edit(ctx, ...) with its own ctx, None, whose
\* .bot raises
make_event_embed_none(t) ==
    /\ task[t].pc = "make_event_embed_none"
    /\ IF ~resolvable
       THEN /\ Throw(t, "AttributeError")
            /\ UNCHANGED start
       ELSE /\ IF start_time(Self, now).raised # ""
               THEN Throw(t, start_time(Self, now).raised)
               ELSE Goto(t, "edit_none")
            /\ start' = start_time(Self, now).start
    /\ UNCHANGED <<members, maybe, max_slots, event, message, disabled>>
    /\ UNCHANGED <<storeVars, resolvable>>
    /\ UNCHANGED argVars

\* Event.edit(None, ...): context.bot on None
edit_none(t) ==
    /\ task[t].pc = "edit_none"
    /\ Throw(t, "AttributeError")
    /\ UNCHANGED <<eventVars, storeVars, resolvable>>
    /\ UNCHANGED argVars

\* Event.edit as update_event calls it, up to message.edit
update_edit(t) ==
    /\ task[t].pc = "edit_fetch_message"
    /\ Goto(t, IF resolvable THEN "message_edit" ELSE "events")
    /\ UNCHANGED <<eventVars, storeVars, resolvable>>
    /\ UNCHANGED argVars

\* ctx.message.edit(..., view=self) in update_event: NotFound when the
\* message went away after it was fetched
update_message_edit(t) ==
    /\ task[t].pc = "message_edit"
    /\ IF resolvable THEN Goto(t, "events") ELSE Throw(t, "NotFound")
    /\ UNCHANGED <<eventVars, storeVars, resolvable>>
    /\ UNCHANGED argVars

\* update_event that goes on to the index when the write of the store failed
update_persist_unchecked(t) ==
    /\ task[t].pc = "events"
    /\ lock = 0
    /\ \/ events' = SetItem(events, Hoster.v, to_json(Self).value)
       \/ UNCHANGED events
    /\ Goto(t, "event_cache")
    /\ UNCHANGED <<eventVars, event_cache, lock, resolvable>>
    /\ UNCHANGED argVars

\* "async with config.guild_from_id(self.guild).events() as cur_events:
\*      cur_events[str(self.hoster)] = self.to_json()"
\* under the lock of the value; the store is written when the mapping changed,
\* and the write may fail
update_persist(t) ==
    /\ task[t].pc = "events"
    /\ lock = 0
    /\ IF to_json(Self).raised # ""
       THEN /\ Throw(t, to_json(Self).raised)
            /\ UNCHANGED events
       ELSE \/ /\ events' = SetItem(events, Hoster.v, to_json(Self).value)
               /\ Goto(t, "event_cache")
            \/ /\ SetItem(events, Hoster.v, to_json(Self).value) # events
               /\ Throw(t, "PersistenceFailure")
               /\ UNCHANGED events
    /\ UNCHANGED <<eventVars, event_cache, lock, resolvable>>
    /\ UNCHANGED argVars

\* "event_cache[self.guild][self.message] = self", then the callback returns
update_index(t) ==
    /\ task[t].pc = "event_cache"
    /\ event_cache' = SetItem(event_cache, message.v, Hoster.v)
    /\ Goto(t, "done")
    /\ UNCHANGED <<eventVars, events, lock, resolvable>>
    /\ UNCHANGED argVars

\* ------------------------------------------- the hoster's confirmed end
\* the "No" button: LeaveEventButton.keep_event
LeaveEventButton_keep_event(t) ==
    /\ task[t].pc = "confirm"
    /\ task' = [task EXCEPT ![t] = [pc |-> "done", error |-> "",
                                    response |-> "I will not end this event."]]
    /\ UNCHANGED <<eventVars, storeVars, resolvable>>
    /\ UNCHANGED argVars

\* the "Yes" button: LeaveEventButton.end_event calls Event.end_event
LeaveEventButton_end_event(t) ==
    /\ task[t].pc = "confirm"
    /\ task' = [task EXCEPT ![t] = [pc |-> "end_events", error |-> "", response |-> ""]]
    /\ UNCHANGED <<eventVars, storeVars, resolvable>>
    /\ UNCHANGED argVars

\* Event.end_event: "async with ...events() as events" takes the lock
end_enter(t) ==
    /\ task[t].pc = "end_events"
    /\ lock = 0
    /\ lock' = t
    /\ Goto(t, "end_fetch_message")
    /\ UNCHANGED <<eventVars, events, event_cache, resolvable>>
    /\ UNCHANGED argVars

\* "del events[str(self.hoster)]; del event_cache[guild][message]" and the
\* leaving of the "async with": a KeyError of the first del leaves the mapping
\* as it was read, so nothing is written; after it the mapping has changed
\* and is written, also when the second del raises
end_delete(t) ==
    IF Hoster.v \notin DOMAIN events
    THEN /\ task' = [task EXCEPT ![t] = [pc |-> "edit_message", response |-> "",
                                         error |-> "KeyError"]]
         /\ lock' = 0
         /\ UNCHANGED event_cache
    ELSE IF message.v \notin DOMAIN event_cache
    THEN /\ task' = [task EXCEPT ![t] = [pc |-> "end_write", response |-> "",
                                         error |-> "KeyError"]]
         /\ UNCHANGED <<lock, event_cache>>
    ELSE /\ event_cache' = DelItem(event_cache, message.v)
         /\ Goto(t, "end_write")
         /\ UNCHANGED lock

\* Event.end_event: "ctx = await self.get_ctx(self.bot)"
end_get_ctx(t) ==
    /\ task[t].pc = "end_fetch_message"
    /\ IF resolvable
       THEN /\ Goto(t, "end_edit_fetch_message")
            /\ UNCHANGED <<lock, event_cache>>
       ELSE end_delete(t)
    /\ UNCHANGED <<eventVars, events, resolvable>>
    /\ UNCHANGED argVars

\* Event.edit as end_event calls it, up to message.edit
end_edit(t) ==
    /\ task[t].pc = "end_edit_fetch_message"
    /\ IF resolvable
       THEN /\ Goto(t, "end_message_edit")
            /\ UNCHANGED <<lock, event_cache>>
       ELSE end_delete(t)
    /\ UNCHANGED <<eventVars, events, resolvable>>
    /\ UNCHANGED argVars

\* ctx.message.edit(content="This event has ended.", view=self) in end_event
end_message_edit(t) ==
    /\ task[t].pc = "end_message_edit"
    /\ IF resolvable
       THEN end_delete(t)
       ELSE /\ task' = [task EXCEPT ![t] = [pc |-> "edit_message", response |-> "",
                                            error |-> "NotFound"]]
            /\ lock' = 0
            /\ UNCHANGED event_cache
    /\ UNCHANGED <<eventVars, events, resolvable>>
    /\ UNCHANGED argVars

\* the write of the changed mapping on leaving "async with", and the release
\* of the lock; whatever was raised is caught by LeaveEventButton.end_event
end_write(t) ==
    /\ task[t].pc = "end_write"
    /\ \/ /\ events' = DelItem(events, Hoster.v)
          /\ Goto(t, "edit_message")
       \/ /\ task' = [task EXCEPT ![t] = [pc |-> "edit_message", response |-> "",
                                          error |-> "PersistenceFailure"]]
          /\ UNCHANGED events
    /\ lock' = 0
    /\ UNCHANGED <<eventVars, event_cache, resolvable>>
    /\ UNCHANGED argVars

\* LeaveEventButton.end_event after "except Exception: pass"
LeaveEventButton_edit_message(t) ==
    /\ task[t].pc = "edit_message"
    /\ task' = [task EXCEPT ![t] = [pc |-> "done", error |-> @.error,
                                    response |-> "Your event has now ended."]]
    /\ UNCHANGED <<eventVars, storeVars, resolvable>>
    /\ UNCHANGED argVars

\* ------------------------------------------------------- the environment
\* the interaction is over: its callback returned or raised
Finish(t) ==
    /\ task[t].pc \in {"send_message", "raised", "done"}
    /\ task' = [task EXCEPT ![t] = Idle]
    /\ UNCHANGED <<eventVars, storeVars, resolvable>>
    /\ UNCHANGED argVars

\* the message is deleted, or the guild or the channel becomes unavailable
LookupFails ==
    /\ resolvable
    /\ resolvable' = FALSE
    /\ UNCHANGED <<eventVars, storeVars, task>>
    /\ UNCHANGED argVars

\* the guild or the channel is available again
LookupRecovers ==
    /\ ~resolvable
    /\ resolvable' = TRUE
    /\ UNCHANGED <<eventVars, storeVars, task>>
    /\ UNCHANGED argVars

\* --------------------------------------------------------- specification
NoArgs ==
    /\ data = None
    /\ now = 0
    /\ seconds = 0
    /\ calls = <<>>
    /\ ret = NoCall

\* an Event after its construction and registration: the lists hold no id
\* twice and share none, the capacity holds and the join button is enabled
\* (discord.ui.Button's default)
Init ==
    /\ members \in Lists(Users)
    /\ maybe \in Lists({u \in Users : ~Contains(members, u)})
    /\ max_slots \in {None} \cup {PyInt(n) : n \in 0..MaxSlotsBound}
    /\ Truthy(max_slots) => Len(members) <= max_slots.v
    /\ start = None
    /\ event = Description
    /\ message = MessageId
    /\ disabled = FALSE
    /\ events = [k \in {Hoster.v} |-> to_json(Self).value]
    /\ event_cache = [m \in {MessageId.v} |-> Hoster.v]
    /\ lock = 0
    /\ resolvable = TRUE
    /\ task = [t \in Tasks |-> Idle]
    /\ NoArgs

\* interaction t goes on from the await at which it is suspended
Resume(t) ==
    \/ PlayerClassSelect_resume(t)
    \/ update_get_ctx(t)
    \/ make_event_embed(t)
    \/ make_event_embed_none(t)
    \/ edit_none(t)
    \/ update_edit(t)
    \/ update_message_edit(t)
    \/ update_persist(t)
    \/ update_index(t)
    \/ LeaveEventButton_keep_event(t)
    \/ LeaveEventButton_end_event(t)
    \/ end_enter(t)
    \/ end_get_ctx(t)
    \/ end_edit(t)
    \/ end_message_edit(t)
    \/ end_write(t)
    \/ LeaveEventButton_edit_message(t)
    \/ Finish(t)

Step(t) ==
    \/ \E u \in Users : JoinEventButton_callback(t, u)
    \/ \E u \in Users : LeaveEventButton_callback(t, u)
    \/ \E u \in Users : PlayerClassSelect_callback(t, u)
    \/ \E u \in Users : MaybeJoinEventButton_callback(t, u)
    \/ Resume(t)

Next ==
    \/ \E t \in Tasks : Step(t)
    \/ LookupFails
    \/ LookupRecovers

Spec == Init /\ [][Next]_vars

\* ------------------------------------------- two maybeJoin calls in a row
\* whether user u is in members and in maybe
Membership(u) == [user |-> u, members |-> Contains(members, u), maybe |-> Contains(maybe, u)]

\* a maybeJoin call by a user who is not the hoster; the user of the first
\* call makes the second
ToggleCall(u) ==
    /\ Len(calls) < 2
    /\ calls # <<>> => calls[1].user = u
    /\ MaybeJoinEventButton_code(1, u)
    /\ calls' = Append(calls, Membership(u))
    /\ UNCHANGED <<data, now, seconds, ret>>

NextToggle ==
    \/ \E u \in Users \ {Hoster} : ToggleCall(u)
    \/ update_get_ctx(1)
    \/ make_event_embed(1)
    \/ update_edit(1)
    \/ update_message_edit(1)
    \/ update_persist(1)
    \/ update_index(1)
    \/ Finish(1)

SpecToggle == Init /\ [][NextToggle]_vars

\* ------------------------------------------------- from_json and to_json
\* the persisted records: every field of the schema, members and maybe lists
\* of plain ids, start null or unix seconds
Records ==
    {[hoster |-> Hoster, members |-> ms, event |-> Description,
      max_slots |-> mx, approver |-> None, message |-> msg,
      channel |-> Channel, guild |-> Guild, maybe |-> my, start |-> st,
      select_options |-> SelectOptions] :
        ms \in Lists(Users), my \in Lists(Users),
        mx \in {None} \cup {PyInt(n) : n \in 0..MaxSlotsBound},
        msg \in {None, MessageId, PyInt(2 * MessageId.v)},
        st \in {None} \cup {PyInt(t) : t \in Times}}

\* the Event object ev is the view
Loaded(ev) ==
    /\ members = ev.members
    /\ maybe = ev.maybe
    /\ max_slots = ev.max_slots
    /\ start = ev.start
    /\ event = ev.event
    /\ message = ev.message
    /\ disabled = FALSE
    /\ events = <<>>
    /\ event_cache = <<>>
    /\ lock = 0
    /\ resolvable = TRUE
    /\ task = [t \in Tasks |-> Idle]

InitJson ==
    /\ data \in Records
    /\ Loaded(from_json(data))
    /\ now = 0
    /\ seconds = 0
    /\ calls = <<>>
    /\ ret = NoCall

\* Event.from_json(bot, data).to_json()
RoundTrip ==
    /\ ret = NoCall
    /\ ret' = to_json(from_json(data))
    /\ UNCHANGED <<progVars, data, now, seconds, calls>>

SpecJson == InitJson /\ [][RoundTrip]_vars

\* ----------------------------------------------------------- should_remove
\* an Event restored from its record, a time and a grace window
InitExpiry ==
    /\ data \in {r \in Records : r.members = <<Hoster>> /\ r.maybe = <<>>
                                 /\ r.max_slots = None}
    /\ Loaded(from_json(data))
    /\ now \in Times
    /\ seconds \in {0, TimeUnit}
    /\ calls = <<>>
    /\ ret = NoCall

\* self.should_remove(seconds) at the time now
ShouldRemove ==
    /\ ret = NoCall
    /\ ret' = Return(PyBool(should_remove(Self, seconds, now)))
    /\ UNCHANGED <<progVars, data, now, seconds, calls>>

SpecExpiry == InitExpiry /\ [][ShouldRemove]_vars

\* --------------------------------------------------------------- start_time
MaxAmount == 2       \* the number of a match is 0..MaxAmount, or past a timedelta's days
MaxWords == 3        \* a description holds up to MaxWords pieces of text

\* the pieces of text of a description
Pieces ==
    {Word("raid"), Word("tomorrow")}
    \cup {Duration(n, k) : n \in 0..MaxAmount, k \in Units}
    \cup {Duration(TimedeltaMaxDays + 1, "days")}
    \cup {DateText(t) : t \in {TimeUnit, 2 * TimeUnit}}

\* the descriptions: texts with at most one piece that reads as a point in time
Descriptions ==
    {ev \in UNION {[1..n -> Pieces] : n \in 0..MaxWords} :
        \A i, j \in 1..Len(ev) : ev[i].type = "date" /\ ev[j].type = "date" => i = j}

\* an Event with the description ev and the start st
WithStart(ev, st) ==
    [hoster |-> Hoster, members |-> <<Hoster>>, event |-> ev,
     max_slots |-> None, approver |-> None, message |-> MessageId,
     channel |-> Channel, guild |-> Guild, maybe |-> <<>>, start |-> st,
     select_options |-> SelectOptions]

InitStartTime ==
    /\ \E ev \in Descriptions, st \in {None, Datetime(0), Datetime(TimeUnit)} :
           Loaded(WithStart(ev, st))
    /\ data = None
    /\ now \in Times
    /\ seconds = 0
    /\ calls = <<>>
    /\ ret = NoCall

\* self.start_time() at the time now
StartTime ==
    /\ ret' = [raised |-> start_time(Self, now).raised,
               value |-> start_time(Self, now).value]
    /\ start' = start_time(Self, now).start
    /\ UNCHANGED <<members, maybe, max_slots, event, message, disabled>>
    /\ UNCHANGED <<storeVars, resolvable, task>>
    /\ UNCHANGED <<data, now, seconds, calls>>

\* the first call of start_time
FirstStartTime ==
    /\ ret = NoCall
    /\ StartTime

SpecStartTime == InitStartTime /\ [][FirstStartTime]_vars

\* ------------------------------------- start_time among the interactions
\* time passes
Tick ==
    /\ now < MaxTicks * TimeUnit
    /\ now' = now + TimeUnit
    /\ UNCHANGED <<progVars, data, seconds, calls, ret>>

\* descriptions of each kind: without a time, with a duration, with a date,
\* with a date and "tomorrow", with a duration past a timedelta's days
StartDescriptions ==
    {Description,
     <<Duration(1, "hours")>>,
     <<DateText(2 * TimeUnit)>>,
     <<Word("tomorrow"), DateText(TimeUnit)>>,
     <<Duration(TimedeltaMaxDays + 1, "days")>>}

\* an Event as in Init, with one of these descriptions and a start that is
\* unset or was set when the Event was made
InitStart ==
    /\ members \in Lists(Users)
    /\ maybe \in Lists({u \in Users : ~Contains(members, u)})
    /\ max_slots \in {None, PyInt(1)}
    /\ Truthy(max_slots) => Len(members) <= max_slots.v
    /\ start \in {None, Datetime(TimeUnit)}
    /\ event \in StartDescriptions
    /\ message = MessageId
    /\ disabled = FALSE
    /\ events = [k \in {Hoster.v} |-> to_json(Self).value]
    /\ event_cache = [m \in {MessageId.v} |-> Hoster.v]
    /\ lock = 0
    /\ resolvable = TRUE
    /\ task = [t \in Tasks |-> Idle]
    /\ NoArgs

NextStart ==
    \/ Step(1)
    \/ LookupFails
    \/ LookupRecovers
    \/ StartTime
    \/ Tick

SpecStart == InitStart /\ [][NextStart]_vars

\* ------------------------------------- should_remove among the interactions
\* an Event as in InitStart, and a grace window
InitSweep ==
    /\ members \in Lists(Users)
    /\ maybe \in Lists({u \in Users : ~Contains(members, u)})
    /\ max_slots \in {None, PyInt(1)}
    /\ Truthy(max_slots) => Len(members) <= max_slots.v
    /\ start \in {None, Datetime(TimeUnit)}
    /\ event \in StartDescriptions
    /\ message = MessageId
    /\ disabled = FALSE
    /\ events = [k \in {Hoster.v} |-> to_json(Self).value]
    /\ event_cache = [m \in {MessageId.v} |-> Hoster.v]
    /\ lock = 0
    /\ resolvable = TRUE
    /\ task = [t \in Tasks |-> Idle]
    /\ data = None
    /\ now = 0
    /\ seconds \in {0, TimeUnit}
    /\ calls = <<>>
    /\ ret = NoCall

\* self.should_remove(seconds) at the time now, at any moment
should_remove_call ==
    /\ ret' = Return(PyBool(should_remove(Self, seconds, now)))
    /\ UNCHANGED <<progVars, data, now, seconds, calls>>

NextSweep ==
    \/ Step(1)
    \/ LookupFails
    \/ LookupRecovers
    \/ should_remove_call
    \/ Tick

SpecSweep == InitSweep /\ [][NextSweep]_vars

\* ------------------------------------------------- the order of members
\* one user more than Users, for lists of three
MoreUsers == Users \cup {PyInt(NumUsers + 1)}

\* an Event as in Init, with members and maybe over MoreUsers
InitOrder ==
    /\ members \in Lists(MoreUsers)
    /\ maybe \in Lists({u \in MoreUsers : ~Contains(members, u)})
    /\ max_slots \in {None} \cup {PyInt(n) : n \in 0..(MaxSlotsBound + 1)}
    /\ Truthy(max_slots) => Len(members) <= max_slots.v
    /\ start = None
    /\ event = Description
    /\ message = MessageId
    /\ disabled = FALSE
    /\ events = [k \in {Hoster.v} |-> to_json(Self).value]
    /\ event_cache = [m \in {MessageId.v} |-> Hoster.v]
    /\ lock = 0
    /\ resolvable = TRUE
    /\ task = [t \in Tasks |-> Idle]
    /\ NoArgs

NextOrder ==
    \/ \E u \in MoreUsers : JoinEventButton_callback(1, u)
    \/ \E u \in MoreUsers : LeaveEventButton_callback(1, u)
    \/ \E u \in MoreUsers : PlayerClassSelect_callback(1, u)
    \/ \E u \in MoreUsers : MaybeJoinEventButton_callback(1, u)
    \/ Resume(1)
    \/ LookupFails
    \/ LookupRecovers

SpecOrder == InitOrder /\ [][NextOrder]_vars

\* ------------------------------------------------------------------ mention
MaxMentioned == 4    \* mention is called while members holds fewer than MaxMentioned ids

\* Event.mention: "members = self.members" names the Event's own list, and
\* "members += self.maybe" extends that list in place; the ids mentioned and
\* self.members after the call
mention(self, include_maybe) ==
    LET ms == IF include_maybe THEN self.members \o self.maybe ELSE self.members
    IN  [value |-> PyList(ms), members |-> ms]

\* self.mention(include_maybe)
Mention(include_maybe) ==
    /\ Len(members) < MaxMentioned
    /\ members' = mention(Self, include_maybe).members
    /\ ret' = Return(mention(Self, include_maybe).value)
    /\ UNCHANGED <<maybe, max_slots, start, event, message, disabled>>
    /\ UNCHANGED <<storeVars, resolvable, task>>
    /\ UNCHANGED <<data, now, seconds, calls>>

NextMention ==
    \/ \E b \in BOOLEAN : Mention(b)
    \/ Step(1)
    \/ LookupFails
    \/ LookupRecovers

SpecMention == Init /\ [][NextMention]_vars

\* ------------------------------------------- from_json of legacy records
\* an entry of a persisted members list: a plain id, or the legacy pair of
\* an id and something else, as a list or as a tuple
MemberEntries ==
    Users
    \cup {PyList(<<u, x>>) : u \in Users, x \in {PyStr("tank"), PyStr("healer")}}
    \cup {PyTuple(<<u, x>>) : u \in Users, x \in {PyStr("tank"), PyStr("healer")}}

MaxLegacy == 3       \* a persisted members list holds up to MaxLegacy entries

\* the persisted records with legacy entries in members
LegacyRecords ==
    {[hoster |-> Hoster, members |-> ms, event |-> Description,
      max_slots |-> None, approver |-> None, message |-> MessageId,
      channel |-> Channel, guild |-> Guild, maybe |-> <<>>, start |-> None,
      select_options |-> SelectOptions] :
        ms \in UNION {[1..n -> MemberEntries] : n \in 0..MaxLegacy}}

InitLegacy ==
    /\ data \in LegacyRecords
    /\ Loaded(from_json(data))
    /\ now = 0
    /\ seconds = 0
    /\ calls = <<>>
    /\ ret = NoCall

\* Event.from_json(bot, data).members
FromJson ==
    /\ ret = NoCall
    /\ ret' = Return(PyList(from_json(data).members))
    /\ UNCHANGED <<progVars, data, now, seconds, calls>>

SpecLegacy == InitLegacy /\ [][FromJson]_vars

\* ================================================================ claims
AtMax == "This event is at the maximum number of members."
Ended == Hoster.v \notin DOMAIN events /\ message.v \notin DOMAIN event_cache

\* C1: with max_slots set (a capacity the code takes as one: not None and not
\* 0), len(members) <= max_slots in every state of every interleaving of the
\* join, leave, maybeJoin and select callbacks: no two racing joins both pass
\* the capacity test and both append.
C1_Capacity == Truthy(max_slots) => Len(members) <= max_slots.v

\* two interactions raced for the last slot: one was accepted and is still
\* suspended in update_event, the other was turned away
C1_Witness ==
    \E t1, t2 \in Tasks :
        /\ task[t1].pc = "fetch_message"
        /\ task[t2].pc = "send_message" /\ task[t2].response = AtMax
        /\ Truthy(max_slots) /\ Len(members) = max_slots.v

\* C2: no user id is in both members and maybe, after any join, leave,
\* maybeJoin or select and at every await in between.
C2_Disjoint == \A u \in Users : ~(Contains(members, u) /\ Contains(maybe, u))

\* an accepted callback has just changed the lists and both hold someone
C2_Witness ==
    /\ \E t \in Tasks : task[t].pc = "fetch_message"
    /\ members # <<>>
    /\ maybe # <<>>

\* C3 as stated: after two maybeJoin calls in a row by one user who is not
\* the hoster, the user is in members and in maybe exactly as before the
\* first call.
C3_Claim == Len(calls) = 2 => Membership(calls[1].user) = calls[1]

\* C3 as amended: a user who was not in members before the first call is in
\* members and in maybe exactly as before; a user who was in members is in
\* neither list.
C3_Toggle ==
    Len(calls) = 2 =>
        IF calls[1].members
        THEN ~Contains(members, calls[1].user) /\ ~Contains(maybe, calls[1].user)
        ELSE Membership(calls[1].user) = calls[1]

\* a user who was in maybe has called maybeJoin twice
C3_Witness == Len(calls) = 2 /\ calls[1].maybe /\ ~calls[1].members

\* C4: to_json(from_json(x)) = x for every well-formed record x, start 0
\* included, and no exception is raised.
C4_Claim == ret # NoCall => ret = Return(data)

\* C5: a rejected input changes nothing: a join by a user already in members,
\* a join at capacity, a leave by a user who is neither the hoster nor in
\* members, and a maybeJoin by the hoster leave members, maybe, the disabled
\* flag, the store and the message-id index as they were.
C5_Rejected ==
    [][\A t \in Tasks, u \in Users :
        (\/ JoinEventButton_callback(t, u) /\ Contains(members, u)
         \/ JoinEventButton_callback(t, u)
               /\ Truthy(max_slots) /\ Len(members) >= max_slots.v
         \/ LeaveEventButton_callback(t, u) /\ u # Hoster /\ ~Contains(members, u)
         \/ MaybeJoinEventButton_callback(t, u) /\ u = Hoster)
        => UNCHANGED <<members, maybe, disabled, events, event_cache>>]_vars

\* a join was turned away at capacity and a leave for want of membership
C5_Witness ==
    \E t1, t2 \in Tasks :
        /\ task[t1].pc = "send_message" /\ task[t1].response = AtMax
        /\ task[t2].pc = "send_message"
        /\ task[t2].response = "You are not registered for this event."

\* the time the claim compares with: start if set, else the message's creation
C6_Expired ==
    IF message = None THEN TRUE
    ELSE now > (IF start # None THEN start.v ELSE snowflake_time(message)) + seconds

\* C6: should_remove(seconds) is true without a message, and else exactly
\* when now > (start if set, else the message's creation time) + seconds.
C6_Claim == ret # NoCall => ret = Return(PyBool(C6_Expired))

\* C7: with the step that completes a mutation of members (join, leave, a
\* maybeJoin that removes a member, a select once its recompute has run) the
\* join control is disabled iff max_slots is set and len(members) >= max_slots.
C7_Recompute ==
    [][\A t \in Tasks :
        (\/ task[t].pc = "idle" /\ task'[t].pc = "fetch_message" /\ members' # members
         \/ task[t].pc = "player_class_set" /\ task'[t].pc = "fetch_message")
        => (disabled' <=> (Truthy(max_slots') /\ Len(members') >= max_slots'.v))]_vars

\* max_slots = 2: the control is disabled with two members
C7_Witness == max_slots = PyInt(2) /\ Len(members) = 2 /\ disabled

\* C8: once end_event has removed the event from the store and from the
\* message-id index, it stays out of both.
C8_Claim == [][Ended => Ended']_vars

\* C9: no error of an unresolved guild, channel or message leaves a join, a
\* leave or a maybeJoin.
C9_Claim ==
    \A t \in Tasks :
        ~(task[t].pc = "raised" /\ task[t].error \in {"AttributeError", "NotFound"})

\* C10: a failed write to the store reaches the caller of the operation, and
\* the operation does not report success.
C10_Claim ==
    \A t \in Tasks :
        task[t].error = "PersistenceFailure" =>
            /\ task[t].pc = "raised"
            /\ task[t].response # "Your event has now ended."

\* the user id of entry i of the persisted members list
C11_Id(i) == IF data.members[i].type = "int" THEN data.members[i] ELSE Head(data.members[i].v)

\* C11: from_json of a record whose members list holds legacy entries
\* [userId, extra], as lists or tuples and mixed with plain ids, gives a
\* members list of exactly the user ids, in the same order, without any extra.
C11_Legacy ==
    ret # NoCall =>
        /\ Len(ret.value.v) = Len(data.members)
        /\ \A i \in 1..Len(data.members) : ret.value.v[i] = C11_Id(i)
        /\ \A i \in 1..Len(ret.value.v) : ret.value.v[i] \in Users

\* a list entry, a tuple entry and a plain id were converted together
C11_Witness ==
    /\ ret # NoCall
    /\ \E i, j, k \in 1..Len(data.members) :
           /\ data.members[i].type = "list"
           /\ data.members[j].type = "tuple"
           /\ data.members[k].type = "int"
    /\ members = ret.value.v

\* the seconds of one unit of time
UnitSeconds(k) ==
    CASE k = "weeks" -> 604800
      [] k = "days" -> 86400
      [] k = "hours" -> 3600
      [] k = "minutes" -> 60
      [] k = "seconds" -> 1

\* the sum of the relative-duration tokens ms, in seconds
RECURSIVE TokenSum(_)
TokenSum(ms) ==
    IF ms = <<>> THEN 0
    ELSE Head(ms).v * UnitSeconds(Head(ms).text) + TokenSum(Tail(ms))

\* the relative-duration tokens of the description
Tokens == SelectSeq(event, IsMatch)

\* now plus the sum of all tokens is what the call returned and set (a sum
\* past the largest timedelta is no datetime)
SumReturned ==
    /\ \A i \in 1..Len(Tokens) : Tokens[i].v <= TimedeltaMaxDays
    /\ ret' = Return(Datetime(now + TokenSum(Tokens)))
    /\ start' = ret'.value

\* the date of the description's date text
DateRead == (CHOOSE w \in {event[i] : i \in 1..Len(event)} : w.type = "date").v

\* C12: start_time on an unset start picks its branch in order: with a
\* relative-duration token in the description the result is now plus the
\* duration, whatever else the text holds; else the date parsed from the
\* text, a day later when "tomorrow" occurs; and when nothing parses the
\* result is None, start stays unset and nothing is raised.
C12_Claim ==
    [][(ret = NoCall /\ ret' # NoCall /\ start = None) =>
        IF Tokens # <<>> THEN SumReturned
        ELSE IF \E i \in 1..Len(event) : event[i].type = "date"
        THEN /\ ret' = Return(Datetime(DateRead + (IF HasTomorrow(event) THEN 86400 ELSE 0)))
             /\ start' = ret'.value
        ELSE ret' = Return(None) /\ start' = None]_vars

\* C13: with several relative-duration tokens, two of one unit included, the
\* computed start is now plus the sum of all of them (here: of tokens whose
\* numbers a timedelta holds).
C13_Claim ==
    [][(/\ ret = NoCall /\ ret' # NoCall /\ start = None
        /\ Len(Tokens) >= 2
        /\ \A i \in 1..Len(Tokens) : Tokens[i].v <= MaxAmount)
        => SumReturned]_vars

\* C14: the start is resolved at most once: once start is not None, no
\* start_time call, render, join, leave, maybeJoin or select changes it, and
\* every start_time call returns it.
C14_Once ==
    [][start # None => (start' = start /\ (StartTime => ret' = Return(start)))]_vars

\* a start an hour after the time 0, set by a render or a call at the time
\* 0, was returned by start_time and is still the start an hour later, with
\* an interaction under way
C14_Witness ==
    /\ event = <<Duration(1, "hours")>>
    /\ start = Datetime(3600)
    /\ ret = Return(start)
    /\ now = 2 * TimeUnit
    /\ task[1].pc = "done"

\* C15: in every update the message-id index is written only after the
\* store write of that update has completed: an interaction comes to the
\* index assignment only from its store write, with its record in the store;
\* an entry appears in the index only by that assignment; and an update whose
\* store write failed leaves the index alone and ends.
C15_Order ==
    [][/\ \A t \in Tasks :
            /\ (task'[t].pc = "event_cache" /\ task[t].pc # "event_cache") =>
                   /\ task[t].pc = "events"
                   /\ Hoster.v \in DOMAIN events'
                   /\ events'[Hoster.v] = to_json(Self).value
            /\ (task[t].pc = "events" /\ task'[t].pc \notin {"events", "event_cache"}) =>
                   /\ task'[t].pc = "raised"
                   /\ event_cache' = event_cache
            /\ task[t].pc = "raised" => task'[t].pc \in {"raised", "idle"}
       /\ (message.v \in DOMAIN event_cache' /\ message.v \notin DOMAIN event_cache) =>
            \E t \in Tasks : task[t].pc = "event_cache" /\ task'[t].pc = "done"]_vars

\* one update has written the store and is about to write the index, another
\* update's store write has failed
C15_Witness ==
    \E t1, t2 \in Tasks :
        /\ task[t1].pc = "event_cache"
        /\ Hoster.v \in DOMAIN events /\ events[Hoster.v].members = members
        /\ task[t2].pc = "raised" /\ task[t2].error = "PersistenceFailure"

\* C16: Event.end_event on a registered event removes the record under the
\* hoster and the index entry, also when the message is gone or goes at any
\* moment of end_event; a message that is not found raises nothing and does
\* not stand in the way of the removal.  (A failed store write and an event
\* that another end has removed in the meantime are other claims' cases.)
C16_Claim ==
    [][\A t \in Tasks :
        (task[t].pc # "edit_message" /\ task'[t].pc = "edit_message"
            /\ task'[t].error \notin {"PersistenceFailure", "KeyError"})
        => (task'[t].error = "" /\ Ended')]_vars

\* C17: ending an event that has been ended raises no error and leaves the
\* store and the index as the first end left them.  (Stated for the error of
\* the removal itself; a message edit that is not found is C16's case.)
C17_Claim ==
    [][\A t \in Tasks :
        (Ended /\ task[t].pc # "edit_message" /\ task'[t].pc = "edit_message")
        => (task'[t].error # "KeyError" /\ UNCHANGED <<events, event_cache>>)]_vars

\* no id twice in the list s
NoDuplicate(s) == \A i, j \in 1..Len(s) : s[i] = s[j] => i = j

\* the ids that are in members before and after a step are in the same order
OrderKept ==
    LET After(x) == Contains(members', x)
        Before(x) == Contains(members, x)
    IN  SelectSeq(members, After) = SelectSeq(members', Before)

\* C18: from a members list without duplicates, members never holds an id
\* twice; an accepted join puts the user last in members and out of maybe;
\* and no step changes the order of the members it neither adds nor removes.
C18_Order ==
    [][/\ NoDuplicate(members) /\ NoDuplicate(members')
       /\ OrderKept
       /\ \A t \in Tasks, u \in MoreUsers :
            (JoinEventButton_callback(t, u) /\ task'[t].pc = "fetch_message") =>
                /\ Len(members') = Len(members) + 1
                /\ members'[Len(members')] = u
                /\ ~Contains(maybe', u)]_vars

\* a join has just put user 2 behind users 3 and 1 and filled the event
C18_Witness ==
    /\ members = <<PyInt(3), Hoster, PyInt(2)>>
    /\ task[1].pc = "fetch_message"
    /\ max_slots = PyInt(3) /\ disabled

\* Event.end_event is under way in interaction t
Ending(t) ==
    task[t].pc \in {"end_events", "end_fetch_message", "end_edit_fetch_message",
                    "end_message_edit", "end_write"}

\* C19: a leave by the hoster changes neither members nor maybe and only
\* opens the confirmation; the event is removed from the store or from the
\* index only by an end that the hoster's "Yes" has started; "No" leaves
\* members, maybe, the store and the index as they were; and a leave by a
\* member who is not the hoster takes the user out of members and maybe.
C19_Leave ==
    [][\A t \in Tasks :
        /\ LeaveEventButton_callback(t, Hoster) =>
               /\ task'[t].pc = "confirm"
               /\ UNCHANGED <<members, maybe, events, event_cache>>
        /\ (task'[t].pc = "confirm" /\ task[t].pc # "confirm") =>
               LeaveEventButton_callback(t, Hoster)
        /\ (Ending(t)' /\ ~Ending(t)) => LeaveEventButton_end_event(t)
        /\ LeaveEventButton_keep_event(t) =>
               UNCHANGED <<members, maybe, events, event_cache>>
        /\ (\/ Hoster.v \in DOMAIN events /\ Hoster.v \notin DOMAIN events'
            \/ message.v \in DOMAIN event_cache /\ message.v \notin DOMAIN event_cache')
               => \E t2 \in Tasks : Ending(t2)
        /\ \A u \in Users \ {Hoster} :
               (LeaveEventButton_callback(t, u) /\ Contains(members, u)) =>
                   ~Contains(members', u) /\ ~Contains(maybe', u)]_vars

\* the hoster, a member, was asked and chose "No", is asked once more, and
\* the event is registered with the hoster in members
C19_Witness ==
    \E t1, t2 \in Tasks :
        /\ task[t1].response = "I will not end this event."
        /\ task[t2].pc = "confirm"
        /\ Contains(members, Hoster)
        /\ ~Ended

\* C20: mention(include_maybe) reads only: for both values of include_maybe
\* and in every state of the Event, the call leaves members and maybe as they
\* were, and with them the capacity bound and the disjointness of the lists.
C20_Claim ==
    [][\A b \in BOOLEAN :
        Mention(b) =>
            /\ UNCHANGED <<members, maybe>>
            /\ (C1_Capacity /\ C2_Disjoint) => (C1_Capacity /\ C2_Disjoint)']_vars

\* C21: expiry is monotonic: for an Event with a message and a fixed grace
\* window, once should_remove has returned true, every later call returns
\* true, whatever was done in between, a render that sets an unset start from
\* the description included.
C21_Claim ==
    [][(message # None /\ ret = Return(PyBool(TRUE)) /\ should_remove_call)
        => ret' = Return(PyBool(TRUE))]_vars

====
